---- MODULE Spec2Model ----
(***************************************************************************)
(* A model of src/tools.py: the experiment artifact store (load_log,       *)
(* save_log, load_hparams, save_hparams) and the job file generator        *)
(* (mkdir_p, write_jobfile), over an explicit filesystem.                   *)
(*                                                                         *)
(* Text is modelled with TLA+ strings.  A file's content is a sequence of   *)
(* string tokens whose concatenation is the content: the opcodes of a       *)
(* pickle, the lexical tokens of a JSON document, the lines of a script.    *)
(* A path is resolved to the sequence of its components; the working        *)
(* directory is the empty sequence and the root is <<"/">>.                 *)
(***************************************************************************)
EXTENDS Integers, Sequences, FiniteSets, TLC

VARIABLES
    fs,         \* the filesystem: resolved path -> [kind, data]
    py3,        \* whether the interpreter keeps text and bytes apart
    heap,       \* the mappings in memory: object id -> mapping
    ret,        \* the artifact store call that returned last
    lastSave,   \* per save name, the most recent save_log call
    lastHp,     \* per directory, the most recent save_hparams call
    job,        \* the job file generator call that returned last
    calls,      \* how many job file generator calls were made
    req,        \* the job specification a driver is about to submit
    logOf,      \* concurrent save_log: the log each caller passes
    pc,         \* concurrent save_log: each caller's position
    pending,    \* concurrent save_log: bytes not yet written by each caller
    offset,     \* concurrent save_log: each caller's file offset
    lastOpen,   \* concurrent save_log: the caller that opened last
    lastWrite,  \* concurrent save_log: the caller that wrote last
    overlap,    \* concurrent save_log: a caller wrote after the other's open
    loaded      \* concurrent save_log: what load_log returned afterwards

vars == <<fs, py3, heap, ret, lastSave, lastHp, job, calls, req,
          logOf, pc, pending, offset, lastOpen, lastWrite, overlap, loaded>>

storeVars == <<py3, heap, ret, lastSave, lastHp>>
jobVars == <<job, calls, req>>
raceVars == <<logOf, pc, pending, offset, lastOpen, lastWrite, overlap, loaded>>

(***************************************************************************)
(* Strings and numbers                                                     *)
(***************************************************************************)
Digits == <<"0", "1", "2", "3", "4", "5", "6", "7", "8", "9">>

RECURSIVE FormatNat(_)
FormatNat(n) ==
    IF n < 10 THEN Digits[n + 1]
    ELSE FormatNat(n \div 10) \o Digits[(n % 10) + 1]

\* '{}'.format(n) and the decimal form of an integer in a pickle or a JSON text
Format(n) == IF n < 0 THEN "-" \o FormatNat(-n) ELSE FormatNat(n)

StartsWith(s, prefix) ==
    /\ Len(s) >= Len(prefix)
    /\ SubSeq(s, 1, Len(prefix)) = prefix

EndsWith(s, suffix) ==
    /\ Len(s) >= Len(suffix)
    /\ SubSeq(s, Len(s) - Len(suffix) + 1, Len(s)) = suffix

IsDigit(c) == \E d \in 1..10 : Digits[d] = c

DigitVal(c) == (CHOOSE d \in 1..10 : Digits[d] = c) - 1

RECURSIVE ParseNat(_, _, _)
ParseNat(s, i, acc) ==
    IF i > Len(s) THEN acc
    ELSE ParseNat(s, i + 1, 10 * acc + DigitVal(SubSeq(s, i, i)))

\* whether s is the decimal form of an integer
IsIntText(s) ==
    LET body == IF StartsWith(s, "-") THEN SubSeq(s, 2, Len(s)) ELSE s
    IN  /\ Len(body) > 0
        /\ \A i \in 1..Len(body) : IsDigit(SubSeq(body, i, i))

\* the integer a decimal form denotes
ParseInt(s) ==
    IF StartsWith(s, "-") THEN 0 - ParseNat(s, 2, 0) ELSE ParseNat(s, 1, 0)

Min(a, b) == IF a < b THEN a ELSE b

(***************************************************************************)
(* Paths and the filesystem                                                *)
(***************************************************************************)
\* os.path.join(a, b)
PathJoin(a, b) ==
    IF StartsWith(b, "/") THEN b
    ELSE IF a = "" \/ EndsWith(a, "/") THEN a \o b
    ELSE a \o "/" \o b

\* the names between the slashes of p, from position start on
RECURSIVE SplitFrom(_, _)
SplitFrom(p, start) ==
    IF start > Len(p) THEN <<>>
    ELSE LET cut == {i \in start..Len(p) : SubSeq(p, i, i) = "/"}
             e == IF cut = {} THEN Len(p) + 1
                  ELSE CHOOSE i \in cut : \A j \in cut : i <= j
         IN  (IF e > start THEN <<SubSeq(p, start, e - 1)>> ELSE <<>>)
             \o SplitFrom(p, e + 1)

\* the components the kernel resolves a path to
Components(p) ==
    (IF StartsWith(p, "/") THEN <<"/">> ELSE <<>>) \o SplitFrom(p, 1)

Front(c) == SubSeq(c, 1, Len(c) - 1)

Dir == [kind |-> "dir", data |-> <<>>]

File(data) == [kind |-> "file", data |-> data]

\* os.path.exists
Exists(f, p) == p # "" /\ Components(p) \in DOMAIN f

\* os.path.exists in the place of os.path.isfile
IsFileOrDir(f, p) == p # "" /\ Components(p) \in DOMAIN f

\* os.path.isfile
IsFile(f, p) ==
    LET c == Components(p)
    IN  p # "" /\ c \in DOMAIN f /\ f[c].kind = "file"

\* os.path.isdir
IsDir(f, p) ==
    LET c == Components(p)
    IN  p # "" /\ c \in DOMAIN f /\ f[c].kind = "dir"

\* the error of walking to the directory that holds c, "" when there is none
WalkError(f, c) ==
    LET bad == {k \in 0..(Len(c) - 1) :
                    \/ SubSeq(c, 1, k) \notin DOMAIN f
                    \/ f[SubSeq(c, 1, k)].kind # "dir"}
    IN  IF bad = {} THEN ""
        ELSE LET k == CHOOSE j \in bad : \A m \in bad : j <= m
             IN  IF SubSeq(c, 1, k) \in DOMAIN f THEN "ENOTDIR" ELSE "ENOENT"

\* an open that creates the file and keeps the content of an existing one
OpenKeep(f, p) ==
    LET c == Components(p)
        w == WalkError(f, c)
    IN  IF p = "" THEN [err |-> "ENOENT", fs |-> f]
        ELSE IF w # "" THEN [err |-> w, fs |-> f]
        ELSE IF c \in DOMAIN f /\ f[c].kind = "dir" THEN [err |-> "EISDIR", fs |-> f]
        ELSE [err |-> "", fs |-> [q \in DOMAIN f \cup {c} |->
                                    IF q \in DOMAIN f THEN f[q] ELSE File(<<>>)]]

\* open(p, 'w') or open(p, 'wb'): the file is created or truncated
OpenWrite(f, p) ==
    LET c == Components(p)
        w == WalkError(f, c)
    IN  IF p = "" THEN [err |-> "ENOENT", fs |-> f]
        ELSE IF w # "" THEN [err |-> w, fs |-> f]
        ELSE IF c \in DOMAIN f /\ f[c].kind = "dir" THEN [err |-> "EISDIR", fs |-> f]
        ELSE [err |-> "", fs |-> [q \in DOMAIN f \cup {c} |->
                                    IF q = c THEN File(<<>>) ELSE f[q]]]

\* a write of bytes at offset off of an open file: a gap is filled with NUL bytes
WriteAt(data, off, bytes) ==
    LET n == IF Len(data) > off + Len(bytes) THEN Len(data) ELSE off + Len(bytes)
    IN  [i \in 1..n |->
            IF i > off /\ i <= off + Len(bytes) THEN bytes[i - off]
            ELSE IF i <= Len(data) THEN data[i]
            ELSE "NUL"]

\* the write of an open file at resolved path c
WriteFile(f, c, off, bytes) ==
    [f EXCEPT ![c] = File(WriteAt(f[c].data, off, bytes))]

\* os.mkdir
Mkdir(f, p) ==
    LET c == Components(p)
        w == WalkError(f, c)
    IN  IF p = "" THEN [err |-> "ENOENT", fs |-> f]
        ELSE IF c \in DOMAIN f THEN [err |-> "EEXIST", fs |-> f]
        ELSE IF w # "" THEN [err |-> w, fs |-> f]
        ELSE [err |-> "", fs |-> [q \in DOMAIN f \cup {c} |->
                                    IF q = c THEN Dir ELSE f[q]]]

\* os.path.split(p)[0] of a path without a trailing slash
DirName(p) ==
    LET cut == {i \in 1..Len(p) : SubSeq(p, i, i) = "/"}
    IN  IF cut = {} THEN ""
        ELSE LET k == CHOOSE i \in cut : \A j \in cut : j <= i
             IN  IF k = 1 THEN "/" ELSE SubSeq(p, 1, k - 1)

StripSlash(p) ==
    IF Len(p) > 1 /\ EndsWith(p, "/") THEN SubSeq(p, 1, Len(p) - 1) ELSE p

\* os.makedirs: the missing ancestors are made first
RECURSIVE Makedirs(_, _)
Makedirs(f, p) ==
    LET name == StripSlash(p)
        head == DirName(name)
    IN  IF head # "" /\ head # name /\ ~Exists(f, head)
        THEN LET r == Makedirs(f, head)
             IN  IF r.err # "" /\ r.err # "EEXIST" THEN r
                 ELSE Mkdir(r.fs, name)
        ELSE Mkdir(f, name)

\* os.makedirs alone, with no handler for the directory that exists
mkdir_p_uncaught(f, p) == Makedirs(f, p)

\* mkdir_p: an existing directory is no error
mkdir_p(f, p) ==
    LET r == Makedirs(f, p)
    IN  IF r.err = "EEXIST" /\ IsDir(r.fs, p) THEN [err |-> "", fs |-> r.fs]
        ELSE r

(***************************************************************************)
(* Values in memory                                                        *)
(***************************************************************************)
PyInt(n) == [t |-> "int", n |-> n, s |-> "", items |-> <<>>]

PyStr(s) == [t |-> "str", n |-> 0, s |-> s, items |-> <<>>]

PyList(xs) == [t |-> "list", n |-> 0, s |-> "", items |-> xs]

PyTuple(xs) == [t |-> "tuple", n |-> 0, s |-> "", items |-> xs]

\* np.random.RandomState(seed): the generator handle, known by its seed
RandomState(seed) == [t |-> "RandomState", n |-> seed, s |-> "", items |-> <<>>]

\* the seeds np.random.RandomState accepts: 0 .. 2^32 - 1
ValidSeed(n) == n >= 0 /\ n \div 65536 < 65536

EmptyDict == [k \in {} |-> PyInt(0)]

\* the order a mapping's keys are visited in
KeyOrder == <<"seed", "rng", "n_rule", "rule_trains", "shape", "save_name">>

KeysInOrder(d) ==
    SelectSeq(KeyOrder, LAMBDA k : k \in DOMAIN d)

(***************************************************************************)
(* pickle                                                                  *)
(***************************************************************************)
\* pickle.dump of a list of integers: the opcodes written
Pickle(log) ==
    <<"(l">> \o [i \in 1..Len(log) |-> "I" \o Format(log[i])] \o <<".">>

RECURSIVE UnpickleFrom(_, _, _)
UnpickleFrom(data, i, acc) ==
    IF i > Len(data) THEN [err |-> "EOFError", log |-> <<>>]
    ELSE IF data[i] = "." THEN [err |-> "", log |-> acc]
    ELSE IF StartsWith(data[i], "I") /\ IsIntText(SubSeq(data[i], 2, Len(data[i])))
    THEN UnpickleFrom(data, i + 1,
                      Append(acc, ParseInt(SubSeq(data[i], 2, Len(data[i])))))
    ELSE [err |-> "UnpicklingError", log |-> <<>>]

\* pickle.load: reads up to the STOP opcode and leaves what follows unread
Unpickle(data) ==
    IF data = <<>> THEN [err |-> "EOFError", log |-> <<>>]
    ELSE IF data[1] # "(l" THEN [err |-> "UnpicklingError", log |-> <<>>]
    ELSE UnpickleFrom(data, 2, <<>>)

(***************************************************************************)
(* json                                                                    *)
(***************************************************************************)
Quote(s) == "\"" \o s \o "\""

IsQuoted(tok) == Len(tok) >= 2 /\ StartsWith(tok, "\"") /\ EndsWith(tok, "\"")

Unquote(tok) == SubSeq(tok, 2, Len(tok) - 1)

RECURSIVE JoinInts(_, _)
JoinInts(xs, i) ==
    IF i > Len(xs) THEN <<>>
    ELSE (IF i > 1 THEN <<",">> ELSE <<>>) \o <<Format(xs[i])>> \o JoinInts(xs, i + 1)

\* whether the JSON encoder knows the value's type
Serializable(v) == v.t \in {"int", "str", "list", "tuple"}

\* the tokens the JSON encoder yields for a value: a tuple is written as a list
JsonValue(v) ==
    IF v.t = "int" THEN <<Format(v.n)>>
    ELSE IF v.t = "str" THEN <<Quote(v.s)>>
    ELSE <<"[">> \o JoinInts(v.items, 1) \o <<"]">>

RECURSIVE JsonMembers(_, _, _)
JsonMembers(d, keys, i) ==
    IF i > Len(keys) THEN [err |-> "", toks |-> <<"}">>]
    ELSE LET head == (IF i > 1 THEN <<",">> ELSE <<>>) \o <<Quote(keys[i]), ":">>
         IN  IF ~Serializable(d[keys[i]])
             THEN [err |-> "TypeError", toks |-> head]
             ELSE LET rest == JsonMembers(d, keys, i + 1)
                  IN  [err |-> rest.err,
                       toks |-> head \o JsonValue(d[keys[i]]) \o rest.toks]

\* json.dump of a mapping with string keys: the chunks written one by one, up
\* to the value the encoder cannot serialize
JsonDump(d) ==
    LET m == JsonMembers(d, KeysInOrder(d), 1)
    IN  [err |-> m.err, toks |-> <<"{">> \o m.toks]

JsonFail == [err |-> "ValueError", val |-> PyInt(0), next |-> 0]

RECURSIVE JsonItems(_, _, _)
JsonItems(toks, i, acc) ==
    IF i + 1 > Len(toks) \/ ~IsIntText(toks[i]) THEN JsonFail
    ELSE LET got == Append(acc, ParseInt(toks[i]))
         IN  IF toks[i + 1] = "]"
             THEN [err |-> "", val |-> PyList(got), next |-> i + 2]
             ELSE IF toks[i + 1] = "," THEN JsonItems(toks, i + 2, got)
             ELSE JsonFail

\* one JSON value starting at token i
JsonParseValue(toks, i) ==
    IF i > Len(toks) THEN JsonFail
    ELSE IF toks[i] = "["
    THEN IF i + 1 <= Len(toks) /\ toks[i + 1] = "]"
         THEN [err |-> "", val |-> PyList(<<>>), next |-> i + 2]
         ELSE JsonItems(toks, i + 1, <<>>)
    ELSE IF IsQuoted(toks[i])
    THEN [err |-> "", val |-> PyStr(Unquote(toks[i])), next |-> i + 1]
    ELSE IF IsIntText(toks[i])
    THEN [err |-> "", val |-> PyInt(ParseInt(toks[i])), next |-> i + 1]
    ELSE JsonFail

RECURSIVE JsonParseMembers(_, _, _)
JsonParseMembers(toks, i, acc) ==
    IF i + 2 > Len(toks) \/ ~IsQuoted(toks[i]) \/ toks[i + 1] # ":"
    THEN [err |-> "ValueError", obj |-> EmptyDict]
    ELSE LET v == JsonParseValue(toks, i + 2)
         IN  IF v.err # "" \/ v.next > Len(toks)
             THEN [err |-> "ValueError", obj |-> EmptyDict]
             ELSE LET got == (Unquote(toks[i]) :> v.val) @@ acc
                  IN  IF toks[v.next] = "}"
                      THEN IF v.next = Len(toks)
                           THEN [err |-> "", obj |-> got]
                           ELSE [err |-> "ValueError", obj |-> EmptyDict]
                      ELSE IF toks[v.next] = ","
                      THEN JsonParseMembers(toks, v.next + 1, got)
                      ELSE [err |-> "ValueError", obj |-> EmptyDict]

\* json.load of a file holding an object
JsonLoad(toks) ==
    IF Len(toks) < 2 \/ toks[1] # "{" THEN [err |-> "ValueError", obj |-> EmptyDict]
    ELSE IF toks = <<"{", "}">> THEN [err |-> "", obj |-> EmptyDict]
    ELSE JsonParseMembers(toks, 2, EmptyDict)

(***************************************************************************)
(* The job file generator                                                  *)
(***************************************************************************)
\* the longest job name the scheduler's directives carry
NameLimit == 16

\* the full job name in the place of jobname[0:16]
LabelFull(jobname) == jobname

\* jobname[0:16]
Label(jobname) == SubSeq(jobname, 1, Min(NameLimit, Len(jobname)))

\* the truncated job name in the place of the job name
LogNameTruncated(jobname) == PathJoin("log", Label(jobname))

\* logname = os.path.join('log', jobname)
LogName(jobname) == PathJoin("log", jobname)

\* gpus <= 0 in the place of gpus == 0
UsesCpuTemplateNoneOrLess(gpus) == gpus <= 0

\* the test that selects the template without GPU directives
UsesCpuTemplate(gpus) == gpus = 0

\* the directives the two templates share, before --time
Resources(a) ==
    << "#! /bin/bash\n",
       "\n",
       "#SBATCH --nodes=" \o Format(a.nodes) \o "\n",
       "#SBATCH --ntasks-per-node=1\n",
       "#SBATCH --cpus-per-task=" \o Format(a.ppn) \o "\n",
       "#SBATCH --mem=" \o Format(a.mem) \o "GB\n" >>

\* a GPU request that carries the caller's count
GpuDirectivesCounted(a) ==
    << "#SBATCH --partition=gpu\n",
       "#SBATCH --gres=gpu:" \o Format(a.gpus) \o "\n" >>

\* the directives only the GPU template has
GpuDirectives(a) ==
    << "#SBATCH --partition=gpu\n",
       "#SBATCH --gres=gpu:1\n" >>

\* the directives from --time on and the commands
Commands(a) ==
    << "#SBATCH --time=" \o Format(a.nhours) \o ":00:00\n",
       "#SBATCH --job-name=" \o Label(a.jobname) \o "\n",
       "#SBATCH --output=" \o a.scratchpath \o "log/" \o Label(a.jobname) \o ".o\n",
       "\n",
       "cd " \o a.scratchpath \o "\n",
       "pwd > " \o LogName(a.jobname) \o ".log\n",
       "date >> " \o LogName(a.jobname) \o ".log\n",
       "which python >> " \o LogName(a.jobname) \o ".log\n",
       a.cmd \o " >> " \o LogName(a.jobname) \o ".log 2>&1\n",
       "\n",
       "exit 0;\n" >>

\* the text write_jobfile writes, line by line
JobScript(a) ==
    IF UsesCpuTemplate(a.gpus) THEN Resources(a) \o Commands(a)
    ELSE Resources(a) \o GpuDirectives(a) \o Commands(a)

\* write_jobfile(cmd, jobname, sbatchpath, scratchpath, nodes, ppn, gpus, mem, nhours)
write_jobfile(f, a) ==
    LET m == mkdir_p(f, a.sbatchpath)
        jobfile == PathJoin(a.sbatchpath, a.jobname \o ".s")
        o == OpenWrite(m.fs, jobfile)
    IN  IF m.err # "" THEN [err |-> m.err, by |-> "mkdir_p", fs |-> m.fs, path |-> ""]
        ELSE IF o.err # "" THEN [err |-> o.err, by |-> "open", fs |-> m.fs, path |-> ""]
        ELSE [err |-> "", by |-> "",
              fs |-> WriteFile(o.fs, Components(jobfile), 0, JobScript(a)),
              path |-> jobfile]

\* the defaults of write_jobfile's optional parameters
DefaultArgs ==
    [cmd |-> "", jobname |-> "", sbatchpath |-> "", scratchpath |-> "",
     nodes |-> 1, ppn |-> 1, gpus |-> 0, mem |-> 16, nhours |-> 12]

NoArgs == DefaultArgs

NoJob ==
    [op |-> "", err |-> "", by |-> "", path |-> "", args |-> NoArgs, again |-> FALSE]

\* how many calls of the job file generator one run makes
MaxCalls == 2

SbatchPaths == {"", "sb", "sb/", "sb/jobs"}

JobNames ==
    {"test_job", "sixteen_chars_ok", "a_very_long_job_name_0123", "/abs_job", "exp/run"}

\* the calls a driver makes with the resource defaults, but for gpus
DriverArgs ==
    {[DefaultArgs EXCEPT !.cmd = "echo hi", !.jobname = n, !.sbatchpath = d,
                         !.scratchpath = "/scratch/", !.gpus = g] :
        n \in JobNames, d \in SbatchPaths, g \in {0, 1}}

\* the job specifications whose rendering is compared
RenderArgs ==
    [cmd : {"echo hi", "python train.py"},
     jobname : {"test_job", "a_very_long_job_name_0123", "/abs_job"},
     sbatchpath : {"sb"},
     scratchpath : {"/scratch/", ""},
     nodes : {-1, 1, 10},
     ppn : {0, 2},
     gpus : {-1, 0, 1, 2},
     mem : {8, 16},
     nhours : {1, 12}]

\* the filesystems a job file generator run may start in
JobFs(sb, jobs) ==
    (<<>> :> Dir) @@ (<<"/">> :> Dir)
    @@ (IF sb = "dir" THEN (<<"sb">> :> Dir) ELSE <<>>)
    @@ (IF sb = "file" THEN (<<"sb">> :> File(<<>>)) ELSE <<>>)
    @@ (IF sb = "dir" /\ jobs = "dir" THEN (<<"sb", "jobs">> :> Dir) ELSE <<>>)
    @@ (IF sb = "dir" /\ jobs = "file" THEN (<<"sb", "jobs">> :> File(<<>>)) ELSE <<>>)

\* a call of mkdir_p(path)
MkdirP(path) ==
    LET m == mkdir_p(fs, path)
    IN  /\ calls < MaxCalls
        /\ calls' = calls + 1
        /\ fs' = m.fs
        /\ job' = [op |-> "mkdir_p", err |-> m.err,
                   by |-> IF m.err = "" THEN "" ELSE "mkdir_p",
                   path |-> path, args |-> NoArgs,
                   again |-> (job.op = "mkdir_p" /\ job.err = "" /\ job.path = path)]
        /\ UNCHANGED <<req, storeVars, raceVars>>

\* a call of write_jobfile with the arguments a
WriteJobfile(a) ==
    LET w == write_jobfile(fs, a)
    IN  /\ calls < MaxCalls
        /\ calls' = calls + 1
        /\ fs' = w.fs
        /\ job' = [op |-> "write_jobfile", err |-> w.err, by |-> w.by,
                   path |-> w.path, args |-> a, again |-> FALSE]
        /\ UNCHANGED <<req, storeVars, raceVars>>

\* the driver submits the job specification it holds
Submit ==
    LET w == write_jobfile(fs, req)
    IN  /\ calls = 0
        /\ calls' = 1
        /\ fs' = w.fs
        /\ job' = [op |-> "write_jobfile", err |-> w.err, by |-> w.by,
                   path |-> w.path, args |-> req, again |-> FALSE]
        /\ UNCHANGED <<req, storeVars, raceVars>>

(***************************************************************************)
(* The experiment artifact store                                           *)
(***************************************************************************)
SaveNames == {"a", "b"}

SaveDirs == {"m1", "m2"}

Logs == {<<1>>, <<3, 4, 5>>}

Hparams ==
    { ("seed" :> PyInt(7)) @@ ("rng" :> RandomState(7))
          @@ ("rule_trains" :> PyList(<<1, 2>>)) @@ ("save_name" :> PyStr("x")),
      ("seed" :> PyInt(0)) @@ ("rng" :> RandomState(0)) @@ ("shape" :> PyTuple(<<1, 2>>)),
      ("seed" :> PyInt(0)) @@ ("n_rule" :> PyInt(2)) }

\* the object the caller holds its hyperparameters in
CallerRef == 1

\* one log file for every save name
LogPathShared(save_name) == PathJoin("data", "log_.pkl")

\* os.path.join('data', 'log_' + save_name + '.pkl')
LogPath(save_name) == PathJoin("data", "log_" \o save_name \o ".pkl")

\* os.path.join(save_dir, 'hparams.json')
HparamsPath(save_dir) == PathJoin(save_dir, "hparams.json")

\* open(p, 'rb') and the read of the whole file
ReadFile(f, p) ==
    LET c == Components(p)
    IN  IF p = "" \/ c \notin DOMAIN f \/ f[c].kind = "dir"
        THEN [err |-> "IOError", data |-> <<>>]
        ELSE [err |-> "", data |-> f[c].data]

NoRet == [op |-> "", arg |-> "", outcome |-> "", log |-> <<>>, hparams |-> EmptyDict]

Returned(op, arg, outcome) == [NoRet EXCEPT !.op = op, !.arg = arg, !.outcome = outcome]

\* the filesystems an artifact store run may start in
StoreFs(haveData, logA, hp) ==
    (<<>> :> Dir) @@ (<<"m1">> :> Dir)
    @@ (IF haveData THEN (<<"data">> :> Dir) ELSE <<>>)
    @@ (IF haveData /\ logA = "file"
        THEN (<<"data", "log_a.pkl">> :> File(Pickle(<<9>>))) ELSE <<>>)
    @@ (IF haveData /\ logA = "dir"
        THEN (<<"data", "log_a.pkl">> :> Dir) ELSE <<>>)
    @@ (IF hp = "file"
        THEN (<<"m1", "hparams.json">> :>
                File(JsonDump(("seed" :> PyInt(3)) @@ ("n_rule" :> PyInt(2))).toks))
        ELSE <<>>)
    @@ (IF hp = "noseed"
        THEN (<<"m1", "hparams.json">> :> File(JsonDump(("n_rule" :> PyInt(2))).toks))
        ELSE <<>>)
    @@ (IF hp = "dir" THEN (<<"m1", "hparams.json">> :> Dir) ELSE <<>>)

\* load_log(save_name): what the call returns or raises
load_log(f, save_name) ==
    LET fname == LogPath(save_name)
        r == ReadFile(f, fname)
        u == Unpickle(r.data)
    IN  IF ~IsFile(f, fname) THEN Returned("load_log", save_name, "None")
        ELSE IF r.err # "" THEN Returned("load_log", save_name, r.err)
        ELSE IF u.err # "" THEN Returned("load_log", save_name, u.err)
        ELSE [Returned("load_log", save_name, "ok") EXCEPT !.log = u.log]

\* a call of load_log(save_name)
LoadLog(save_name) ==
        /\ ret' = load_log(fs, save_name)
        /\ UNCHANGED <<fs, py3, heap, lastSave, lastHp, jobVars, raceVars>>

\* a call of save_log(log, save_name)
SaveLog(log, save_name) ==
    LET fname == LogPath(save_name)
        o == OpenWrite(fs, fname)
    IN  /\ fs' = IF o.err # "" THEN fs
                 ELSE WriteFile(o.fs, Components(fname), 0, Pickle(log))
        /\ ret' = Returned("save_log", save_name, IF o.err # "" THEN "IOError" ELSE "ok")
        /\ lastSave' = [lastSave EXCEPT ![save_name] =
                           [status |-> IF o.err # "" THEN "raised" ELSE "returned",
                            log |-> log]]
        /\ UNCHANGED <<py3, heap, lastHp, jobVars, raceVars>>

\* hparams_copy = hparams: a second name for the caller's mapping
DictCopyAlias(h, ref) == [heap |-> h, ref |-> ref]

\* hparams.copy(): a new mapping with the same entries
DictCopy(h, ref) ==
    LET new == CHOOSE i \in 1..(Cardinality(DOMAIN h) + 1) : i \notin DOMAIN h
    IN  [heap |-> (new :> h[ref]) @@ h, ref |-> new]

\* d.pop(key) with no default
DictPop(h, ref, key) ==
    IF key \notin DOMAIN h[ref] THEN [err |-> "KeyError", heap |-> h]
    ELSE [err |-> "",
          heap |-> [h EXCEPT ![ref] = [k \in DOMAIN h[ref] \ {key} |-> h[ref][k]]]]

\* what is left of the heap when the call's locals are gone
Collect(h) == [i \in {CallerRef} |-> h[i]]

\* a call of save_hparams(hparams, save_dir), hparams the caller's mapping
SaveHparams(save_dir) ==
    LET c == DictCopy(heap, CallerRef)
        p == DictPop(c.heap, c.ref, "rng")
        fname == HparamsPath(save_dir)
        o == OpenWrite(fs, fname)
        j == JsonDump(p.heap[c.ref])
        written == IF py3 THEN <<>> ELSE j.toks
        outcome == IF p.err # "" THEN p.err
                   ELSE IF o.err # "" THEN "IOError"
                   ELSE IF py3 \/ j.err # "" THEN "TypeError"
                   ELSE "ok"
    IN  /\ heap' = Collect(p.heap)
        /\ fs' = IF p.err # "" \/ o.err # "" THEN fs
                 ELSE WriteFile(o.fs, Components(fname), 0, written)
        /\ ret' = Returned("save_hparams", save_dir, outcome)
        /\ lastHp' = [lastHp EXCEPT ![save_dir] = outcome]
        /\ UNCHANGED <<py3, lastSave, jobVars, raceVars>>

\* a call of load_hparams(save_dir)
LoadHparams(save_dir) ==
    LET fname == HparamsPath(save_dir)
        r == ReadFile(fs, fname)
        j == JsonLoad(r.data)
        outcome == IF ~IsFile(fs, fname) THEN "None"
                   ELSE IF r.err # "" THEN r.err
                   ELSE IF j.err # "" THEN j.err
                   ELSE IF "seed" \notin DOMAIN j.obj THEN "KeyError"
                   ELSE IF j.obj["seed"].t # "int" THEN "TypeError"
                   ELSE IF ~ValidSeed(j.obj["seed"].n + 1000) THEN "ValueError"
                   ELSE "ok"
    IN  /\ ret' = IF outcome # "ok" THEN Returned("load_hparams", save_dir, outcome)
                  ELSE [Returned("load_hparams", save_dir, "ok") EXCEPT
                            !.hparams = ("rng" :> RandomState(j.obj["seed"].n + 1000))
                                        @@ j.obj]
        /\ UNCHANGED <<fs, py3, heap, lastSave, lastHp, jobVars, raceVars>>


RaceIdle ==
    /\ logOf = <<>>
    /\ pc = <<>>
    /\ pending = <<>>
    /\ offset = <<>>
    /\ lastOpen = 0
    /\ lastWrite = 0
    /\ overlap = FALSE
    /\ loaded = NoRet

InitStore ==
    /\ fs \in {StoreFs(d, a, h) : d \in BOOLEAN, a \in {"absent", "file", "dir"},
                                  h \in {"absent", "file", "noseed", "dir"}}
    /\ py3 \in BOOLEAN
    /\ heap \in {(CallerRef :> h) : h \in Hparams}
    /\ ret = NoRet
    /\ lastSave = [n \in SaveNames |-> [status |-> "none", log |-> <<>>]]
    /\ lastHp = [d \in SaveDirs |-> "none"]
    /\ job = NoJob
    /\ calls = 0
    /\ req = NoArgs
    /\ RaceIdle

NextStore ==
    \/ \E n \in SaveNames : LoadLog(n)
    \/ \E n \in SaveNames, l \in Logs : SaveLog(l, n)
    \/ \E d \in SaveDirs : SaveHparams(d)
    \/ \E d \in SaveDirs : LoadHparams(d)

\* the artifact store, called by one caller, one call after the other
SpecStore == InitStore /\ [][NextStore]_vars

StoreIdle ==
    /\ py3 = FALSE
    /\ heap = (CallerRef :> EmptyDict)
    /\ ret = NoRet
    /\ lastSave = [n \in SaveNames |-> [status |-> "none", log |-> <<>>]]
    /\ lastHp = [d \in SaveDirs |-> "none"]

(***************************************************************************)
(* Two callers in save_log on one save name                                *)
(***************************************************************************)
Procs == {1, 2}

\* the save name both callers target
RaceName == "a"

RaceLogs == {<<1>>, <<2, 3>>, <<3, 4, 5>>, <<6, 7, 8, 9>>}

\* how many bytes a file object buffers before it writes them out
BufSize == 4

\* the open of 'with open(..., 'wb') as f': the file is created or truncated
RaceOpen(p) ==
    LET o == OpenWrite(fs, LogPath(RaceName))
    IN  /\ pc[p] = "start"
        /\ o.err = ""
        /\ fs' = o.fs
        /\ pc' = [pc EXCEPT ![p] = "open"]
        /\ pending' = [pending EXCEPT ![p] = Pickle(logOf[p])]
        /\ offset' = [offset EXCEPT ![p] = 0]
        /\ lastOpen' = p
        /\ overlap' = FALSE
        /\ UNCHANGED <<logOf, lastWrite, loaded, storeVars, jobVars>>

\* pickle.dump fills the buffer, and the full buffer is written at the
\* caller's own offset
RaceFlush(p) ==
    /\ pc[p] = "open"
    /\ Len(pending[p]) > BufSize
    /\ fs' = WriteFile(fs, Components(LogPath(RaceName)), offset[p],
                       SubSeq(pending[p], 1, BufSize))
    /\ pending' = [pending EXCEPT ![p] = SubSeq(pending[p], BufSize + 1, Len(pending[p]))]
    /\ offset' = [offset EXCEPT ![p] = offset[p] + BufSize]
    /\ lastWrite' = p
    /\ overlap' = (overlap \/ p # lastOpen)
    /\ UNCHANGED <<logOf, pc, lastOpen, loaded, storeVars, jobVars>>

\* the end of the with block: the rest of the buffer is written, the file is
\* closed and save_log returns
RaceClose(p) ==
    /\ pc[p] = "open"
    /\ Len(pending[p]) <= BufSize
    /\ fs' = WriteFile(fs, Components(LogPath(RaceName)), offset[p], pending[p])
    /\ pending' = [pending EXCEPT ![p] = <<>>]
    /\ offset' = [offset EXCEPT ![p] = offset[p] + Len(pending[p])]
    /\ pc' = [pc EXCEPT ![p] = "done"]
    /\ lastWrite' = p
    /\ overlap' = (overlap \/ p # lastOpen)
    /\ UNCHANGED <<logOf, lastOpen, loaded, storeVars, jobVars>>

\* load_log once both callers have returned
RaceLoad ==
    /\ \A p \in Procs : pc[p] = "done"
    /\ loaded = NoRet
    /\ loaded' = load_log(fs, RaceName)
    /\ UNCHANGED <<fs, logOf, pc, pending, offset, lastOpen, lastWrite, overlap,
                   storeVars, jobVars>>

InitRace ==
    /\ fs \in {StoreFs(TRUE, a, "absent") : a \in {"absent", "file"}}
    /\ logOf \in [Procs -> RaceLogs]
    /\ pc = [p \in Procs |-> "start"]
    /\ pending = [p \in Procs |-> <<>>]
    /\ offset = [p \in Procs |-> 0]
    /\ lastOpen = 0
    /\ lastWrite = 0
    /\ overlap = FALSE
    /\ loaded = NoRet
    /\ job = NoJob
    /\ calls = 0
    /\ req = NoArgs
    /\ StoreIdle

NextRace ==
    \/ \E p \in Procs : RaceOpen(p)
    \/ \E p \in Procs : RaceFlush(p)
    \/ \E p \in Procs : RaceClose(p)
    \/ RaceLoad

\* two callers of save_log(_, RaceName), their steps interleaved
SpecRace == InitRace /\ [][NextRace]_vars

InitJob ==
    /\ fs \in {JobFs(sb, jobs) : sb \in {"absent", "dir", "file"},
                                 jobs \in {"absent", "dir", "file"}}
    /\ job = NoJob
    /\ calls = 0
    /\ req = NoArgs
    /\ StoreIdle
    /\ RaceIdle

NextJob ==
    \/ \E path \in SbatchPaths : MkdirP(path)
    \/ \E a \in DriverArgs : WriteJobfile(a)

\* the job file generator and mkdir_p, called one call after the other
SpecJob == InitJob /\ [][NextJob]_vars

InitRender ==
    /\ fs = JobFs("absent", "absent")
    /\ job = NoJob
    /\ calls = 0
    /\ req \in RenderArgs
    /\ StoreIdle
    /\ RaceIdle

NextRender == Submit

\* write_jobfile applied to each job specification
SpecRender == InitRender /\ [][NextRender]_vars

(***************************************************************************)
(* Properties of the artifact store                                        *)
(***************************************************************************)
\* whether resolved path c is an existing regular file
ExistingFile(f, c) == c \in DOMAIN f /\ f[c].kind = "file"

\* whether the entry at resolved path c is the same in f and g
SameEntry(f, g, c) ==
    /\ c \in DOMAIN f <=> c \in DOMAIN g
    /\ c \in DOMAIN f => f[c] = g[c]

\* C1: after save_hparams(hparams, dir) on a mapping with no 'rng' entry,
\* load_hparams(dir) returns the mapping's fields unchanged plus a generator
\* handle under 'rng' seeded at the original seed + 1000.
C1_RoundTrip ==
    (/\ ret.op = "load_hparams"
     /\ lastHp[ret.arg] # "none"
     /\ "rng" \notin DOMAIN heap[CallerRef])
    => /\ ret.outcome = "ok"
       /\ ret.hparams = ("rng" :> RandomState(heap[CallerRef]["seed"].n + 1000))
                        @@ heap[CallerRef]

\* C2: a save_hparams call leaves the caller's mapping as it was, the 'rng'
\* key still present, and the file it wrote has no 'rng' member.
C2_NonMutation ==
    [][ret'.op = "save_hparams" =>
          /\ heap'[CallerRef] = heap[CallerRef]
          /\ "rng" \in DOMAIN heap[CallerRef] => "rng" \in DOMAIN heap'[CallerRef]
          /\ ret'.outcome = "ok" =>
                LET data == fs'[<<ret'.arg, "hparams.json">>].data
                IN  \A i \in 1..Len(data) : data[i] # "\"rng\""]_vars

\* C2 witness: save_hparams returned for a mapping that holds 'rng'
C2_Witness ==
    /\ ret.op = "save_hparams"
    /\ ret.outcome = "ok"
    /\ "rng" \in DOMAIN heap[CallerRef]
    /\ ExistingFile(fs, <<ret.arg, "hparams.json">>)
    /\ Len(fs[<<ret.arg, "hparams.json">>].data) > 2

\* C3: where data/log_<name>.pkl is not an existing file load_log(name) returns
\* None, where <dir>/hparams.json is not an existing file load_hparams(dir)
\* returns None, and neither call changes the filesystem.
C3_AbsenceContract ==
    [][/\ (/\ ret'.op = "load_log"
           /\ ~ExistingFile(fs, <<"data", "log_" \o ret'.arg \o ".pkl">>))
          => (ret'.outcome = "None" /\ fs' = fs)
       /\ (/\ ret'.op = "load_hparams"
           /\ ~ExistingFile(fs, <<ret'.arg, "hparams.json">>))
          => (ret'.outcome = "None" /\ fs' = fs)]_vars

\* C3 witness: load_log returned None where a directory has the log's name
C3_Witness ==
    /\ ret.op = "load_log"
    /\ ret.outcome = "None"
    /\ <<"data", "log_" \o ret.arg \o ".pkl">> \in DOMAIN fs
    /\ fs[<<"data", "log_" \o ret.arg \o ".pkl">>].kind = "dir"

\* C4: load_log(name) returns exactly the log of the most recent save_log on
\* that name that returned, and a save_log on one name leaves the stored log of
\* every other name as it was.
C4_FullReplace ==
    /\ [](/\ ret.op = "load_log"
          /\ lastSave[ret.arg].status = "returned"
          => /\ ret.outcome = "ok"
             /\ ret.log = lastSave[ret.arg].log)
    /\ [][ret'.op = "save_log" =>
             \A m \in SaveNames \ {ret'.arg} :
                 SameEntry(fs, fs', <<"data", "log_" \o m \o ".pkl">>)]_vars

\* C4 witness: a log was saved over an earlier, longer one and loaded, with
\* another log saved under the other name
C4_Witness ==
    /\ ret.op = "load_log"
    /\ ret.arg = "a"
    /\ ret.outcome = "ok"
    /\ ret.log = <<1>>
    /\ lastSave["a"] = [status |-> "returned", log |-> <<1>>]
    /\ lastSave["b"] = [status |-> "returned", log |-> <<3, 4, 5>>]

(***************************************************************************)
(* Properties of the job file generator                                    *)
(***************************************************************************)
\* whether line l, without its newline, is a line of script s
HasLine(s, l) == \E i \in 1..Len(s) : s[i] = l \o "\n"

\* whether pat occurs in str
Contains(str, pat) ==
    \E i \in 1..(Len(str) - Len(pat) + 1) : SubSeq(str, i, i + Len(pat) - 1) = pat

\* the place of the first line l of script s, 0 when there is none
Pos(s, l) ==
    IF HasLine(s, l)
    THEN CHOOSE i \in 1..Len(s) : s[i] = l \o "\n" /\ \A j \in 1..(i - 1) : s[j] # l \o "\n"
    ELSE 0

\* the first 16 characters of a name, the whole name when it is shorter
First16(name) == SubSeq(name, 1, IF Len(name) < 16 THEN Len(name) ELSE 16)

\* the script a write_jobfile call that returned has written
Written == fs[Components(job.path)].data

JobWritten == job.op = "write_jobfile" /\ job.err = ""

\* C5: gpus == 0 gives a script with no --gres and no --partition line, any
\* other gpus one with '--partition=gpu' and a '--gres=gpu:' request; both carry
\* --nodes, --ntasks-per-node=1, --cpus-per-task, --mem and --time rendered from
\* the arguments, and end with 'exit 0;'.
C5_Templates ==
    JobWritten =>
        LET a == job.args
            s == Written
        IN  /\ a.gpus = 0 =>
                  \A i \in 1..Len(s) :
                      ~Contains(s[i], "--gres") /\ ~Contains(s[i], "--partition")
            /\ a.gpus # 0 =>
                  /\ HasLine(s, "#SBATCH --partition=gpu")
                  /\ \E i \in 1..Len(s) : StartsWith(s[i], "#SBATCH --gres=gpu:")
            /\ HasLine(s, "#SBATCH --nodes=" \o Format(a.nodes))
            /\ HasLine(s, "#SBATCH --ntasks-per-node=1")
            /\ HasLine(s, "#SBATCH --cpus-per-task=" \o Format(a.ppn))
            /\ HasLine(s, "#SBATCH --mem=" \o Format(a.mem) \o "GB")
            /\ HasLine(s, "#SBATCH --time=" \o Format(a.nhours) \o ":00:00")
            /\ s[Len(s)] = "exit 0;\n"

\* C5 witness: the CPU script of the job 'test_job' with 2 cores, 8 GB, 1 hour
C5_Witness ==
    /\ JobWritten
    /\ job.args.gpus = 0
    /\ job.args.jobname = "test_job"
    /\ job.args.ppn = 2 /\ job.args.mem = 8 /\ job.args.nhours = 1
    /\ HasLine(Written, "#SBATCH --cpus-per-task=2")
    /\ HasLine(Written, "#SBATCH --mem=8GB")
    /\ HasLine(Written, "#SBATCH --time=1:00:00")

BodyInOrder(s, a, log) ==
    LET cd == Pos(s, "cd " \o a.scratchpath)
        date == Pos(s, "date >> " \o log \o ".log")
        probe == Pos(s, "which python >> " \o log \o ".log")
        cmd == Pos(s, a.cmd \o " >> " \o log \o ".log 2>&1")
        exit == Pos(s, "exit 0;")
    IN  0 < cd /\ cd < date /\ date < probe /\ probe < cmd /\ cmd < exit

\* C7 as claimed: the timestamp, the interpreter probe and the command's
\* output are appended, in that order after the cd, to the log file named
\* after the first 16 characters of the job name.
C7_TruncatedLogName ==
    JobWritten => BodyInOrder(Written, job.args, PathJoin("log", First16(job.args.jobname)))

\* C7: the timestamp, the interpreter probe and the command's output are
\* appended, in that order after the cd and before exit 0, to the log file
\* named after the whole job name, os.path.join('log', jobname) + '.log'.
C7_FullLogName ==
    JobWritten => BodyInOrder(Written, job.args, PathJoin("log", job.args.jobname))

\* C7 witness: a script for a job name of more than 16 characters whose log
\* file carries the whole name
C7_Witness ==
    /\ JobWritten
    /\ job.args.jobname = "a_very_long_job_name_0123"
    /\ HasLine(Written, "date >> log/a_very_long_job_name_0123.log")

\* whether p is an existing entry that is no directory
OccupiedByNonDir(f, p) ==
    p # "" /\ Components(p) \in DOMAIN f /\ f[Components(p)].kind # "dir"

\* whether p is empty, or p or a directory on the way to it is an existing
\* entry that is no directory
Blocked(f, p) ==
    \/ p = ""
    \/ \E k \in 1..Len(Components(p)) :
          /\ SubSeq(Components(p), 1, k) \in DOMAIN f
          /\ f[SubSeq(Components(p), 1, k)].kind # "dir"

\* what C8 says of one call that takes the filesystem from f to g and leaves
\* the record j, mkdirRaises and jobRaises being whether mkdir_p is to raise on
\* the call's path
CallContract(f, g, j, mkdirRaises, jobRaises) ==
    /\ j.op = "mkdir_p" =>
          /\ j.err # "" <=> mkdirRaises
          /\ j.err = "" => /\ Components(j.path) \in DOMAIN g
                           /\ g[Components(j.path)].kind = "dir"
          /\ j.err # "" => g = f
          /\ j.again => j.err = "" /\ g = f
    /\ (j.op = "write_jobfile" /\ jobRaises) =>
          /\ j.by = "mkdir_p"
          /\ g = f

\* C8 as claimed: mkdir_p succeeds whether or not the directory exists, twice
\* in a row too, and raises only when the path is an existing entry that is
\* no directory; the error then leaves write_jobfile before a script is written.
C8_RaisesOnlyOnNonDir ==
    [][calls' = calls + 1 =>
          CallContract(fs, fs', job', OccupiedByNonDir(fs, job'.path),
                       OccupiedByNonDir(fs, job'.args.sbatchpath))]_vars

\* C8: mkdir_p succeeds whether or not the directory exists, twice in a row
\* too, and raises exactly when the path is empty or the path or one of its
\* ancestors is an existing entry that is no directory; the error then leaves
\* write_jobfile before a script is written.
C8_Idempotent ==
    [][calls' = calls + 1 =>
          CallContract(fs, fs', job', Blocked(fs, job'.path),
                       Blocked(fs, job'.args.sbatchpath))]_vars

\* C8 witness: mkdir_p succeeded a second time in a row on the same path
C8_Witness ==
    /\ job.op = "mkdir_p"
    /\ job.again
    /\ job.err = ""
    /\ job.path = "sb/jobs"
    /\ fs[<<"sb", "jobs">>].kind = "dir"

BothReturned == \A p \in Procs : pc[p] = "done"

\* the bytes of the file both callers wrote
RaceData == fs[<<"data", "log_" \o RaceName \o ".pkl">>].data

\* whether load_log, once called, returned log
LoadedIs(log) == loaded.op # "" => (loaded.outcome = "ok" /\ loaded.log = log)

\* C9 as claimed: once both calls have returned the file holds exactly the
\* complete log of the caller that wrote last, and load_log returns one of the
\* two logs.
C9_LastWriterWins ==
    BothReturned =>
        /\ RaceData = Pickle(logOf[lastWrite])
        /\ loaded.op # "" => (loaded.outcome = "ok" /\ loaded.log \in {logOf[p] : p \in Procs})

\* C9: once both calls have returned, the file holds exactly the log of the
\* caller that opened last if the other caller wrote nothing after that open;
\* and if each log is written in one write the file begins with the complete
\* log of the caller that wrote last, which is what load_log returns.
C9_NoOverlapOrOneWrite ==
    BothReturned =>
        /\ ~overlap =>
              /\ RaceData = Pickle(logOf[lastOpen])
              /\ LoadedIs(logOf[lastOpen])
        /\ (\A p \in Procs : Len(Pickle(logOf[p])) <= BufSize) =>
              /\ StartsWith(RaceData, Pickle(logOf[lastWrite]))
              /\ LoadedIs(logOf[lastWrite])

\* C9 witness: the calls overlapped, each wrote once, and the file keeps bytes
\* of the other log after the log load_log returned
C9_Witness ==
    /\ BothReturned
    /\ overlap
    /\ \A p \in Procs : Len(Pickle(logOf[p])) <= BufSize
    /\ loaded.outcome = "ok"
    /\ loaded.log = logOf[lastWrite]
    /\ Len(RaceData) > Len(Pickle(logOf[lastWrite]))

====
